---- MODULE Spec2Model ----
(***************************************************************************)
(* The append-only transaction ledger of                                   *)
(* practice/monolithicEventVsTransactionState: package state (State,       *)
(* NewStateFromDisk, Apply, Add, Persist), package transaction (Tx) and    *)
(* package genesis (LoadGenesis).                                          *)
(*                                                                         *)
(* The tx.db file is a sequence of tokens standing for runs of bytes: one  *)
(* token per JSON punctuation/field and one for the newline.  A write that *)
(* fails may have emitted a proper prefix of the frame it was given.       *)
(***************************************************************************)
EXTENDS Integers, Sequences, FiniteSets, TLC

VARIABLES
    pc,         \* "start" before NewStateFromDisk, then "live" or "failed"
    genesisOk,  \* database/genesis.json exists and decodes
    genesis,    \* the balances of database/genesis.json
    dbExists,   \* database/tx.db exists and can be opened
    dbFile,     \* the content of database/tx.db
    durable,    \* number of bytes of tx.db that have reached the disk
    gen,        \* gen.Balances, the map LoadGenesis returned
    Balances,   \* State.Balances
    TxMempool,  \* State.TxMempool
    bootFile,   \* history: content of tx.db when NewStateFromDisk opened it
    replayed,   \* history: transactions NewStateFromDisk applied
    accepted,   \* history: transactions whose Add returned nil
    written,    \* history: transactions whose Write returned nil
    unread,     \* history: bytes of tx.db the replay loop never decoded
    nfail,      \* history: number of Write calls that returned an error
    last,       \* history: the call that just returned
    crashes,    \* history: how many times the process has died
    mainState,  \* the State of package main, run beside the one of package state
    gor         \* the callers' goroutines: position and locals of each

vars == <<pc, genesisOk, genesis, dbExists, dbFile, durable, gen, Balances,
          TxMempool, bootFile, replayed, unread, accepted, written, nfail,
          last, crashes, mainState, gor>>

----------------------------------------------------------------------------
(* Bounds of the model *)

\* width of the model's uint (Go's uint is 64 bits wide on the build target)
UintBits == 2
\* successful Add calls in one run of Spec
MaxAdds == 2
\* failing Write calls in one run of Spec
MaxFails == 1
MaxCrashes == 1
MaxCallers == 2
IntBits == 3

\* bufio.MaxScanTokenSize = 64 * 1024, the default buffer limit of the Scanner
MaxScanTokenSize == 65536

UintMod == 2 ^ UintBits
MaxUint == UintMod - 1

----------------------------------------------------------------------------
(* Strings *)

\* Stands for a Go string of MaxScanTokenSize bytes.
LongData == "long"
\* Stands for the one-byte Go string "\xff", which is not valid UTF-8.
BadUtf8 == "xFF"
\* Stands for the three-byte string "�", the Unicode replacement rune.
ReplacementRune == "uFFFD"

\* len(s)
StrLen(s) ==
    CASE s = "" -> 0
      [] s = LongData -> MaxScanTokenSize
      [] s = ReplacementRune -> 3
      [] s = "reward" -> 6
      [] OTHER -> 1

\* Number of decimal digits of n.
RECURSIVE Digits(_)
Digits(n) == IF n < 10 THEN 1 ELSE 1 + Digits(n \div 10)

----------------------------------------------------------------------------
(* transaction.Tx *)

Tx(from, to, value, data) ==
    [From |-> from, To |-> to, Value |-> value, Data |-> data]

IsReward(t) == t.Data = "reward"

----------------------------------------------------------------------------
(* Go maps of uint: a function on the keys present *)

EmptyMap == <<>>

\* m[k] as an rvalue: the zero value when the key is absent
Get(m, k) == IF k \in DOMAIN m THEN m[k] ELSE 0

\* m[k] = v: creates the entry when the key is absent
Put(m, k, v) == [x \in (DOMAIN m) \cup {k} |-> IF x = k THEN v ELSE m[x]]

\* uint arithmetic wraps modulo 2^UintBits
UAdd(a, b) == (a + b) % UintMod
USub(a, b) == (a - b + UintMod) % UintMod

----------------------------------------------------------------------------
(* State.Apply *)

ApplyNoCheck(b, t) ==
    IF IsReward(t)
    THEN [err |-> "", bal |-> Put(b, t.To, UAdd(Get(b, t.To), t.Value))]
    ELSE LET b1 == Put(b, t.From, USub(Get(b, t.From), t.Value))
             b2 == Put(b1, t.To, UAdd(Get(b1, t.To), t.Value))
         IN  [err |-> "", bal |-> b2]

ApplyDebitFirst(b, t) ==
    IF IsReward(t)
    THEN [err |-> "", bal |-> Put(b, t.To, UAdd(Get(b, t.To), t.Value))]
    ELSE LET b1 == Put(b, t.From, USub(Get(b, t.From), t.Value))
             b2 == Put(b1, t.To, UAdd(Get(b1, t.To), t.Value))
         IN  IF t.Value > Get(b, t.From)
             THEN [err |-> "insufficient", bal |-> b1]
             ELSE [err |-> "", bal |-> b2]

ApplyStaleCredit(b, t) ==
    IF IsReward(t)
    THEN [err |-> "", bal |-> Put(b, t.To, UAdd(Get(b, t.To), t.Value))]
    ELSE IF t.Value > Get(b, t.From)
         THEN [err |-> "insufficient", bal |-> b]
         ELSE LET b1 == Put(b, t.From, USub(Get(b, t.From), t.Value))
                  b2 == Put(b1, t.To, UAdd(Get(b, t.To), t.Value))
              IN  [err |-> "", bal |-> b2]

Apply(b, t) ==
    IF IsReward(t)
    THEN [err |-> "", bal |-> Put(b, t.To, UAdd(Get(b, t.To), t.Value))]
    ELSE IF t.Value > Get(b, t.From)
         THEN [err |-> "insufficient", bal |-> b]
         ELSE LET b1 == Put(b, t.From, USub(Get(b, t.From), t.Value))
                  b2 == Put(b1, t.To, UAdd(Get(b1, t.To), t.Value))
              IN  [err |-> "", bal |-> b2]

\* Apply on each transaction of ts in order, stopping at the first error.
RECURSIVE ApplyAll(_, _)
ApplyAll(b, ts) ==
    IF ts = <<>> THEN [err |-> "", bal |-> b]
    ELSE LET r == Apply(b, Head(ts))
         IN  IF r.err # "" THEN r ELSE ApplyAll(r.bal, Tail(ts))

----------------------------------------------------------------------------
(* encoding/json on a Tx, and the bytes of tx.db *)

Tok(k, s, n) == [k |-> k, s |-> s, n |-> n]

Newline == Tok("nl", "", 0)
\* A byte that starts no JSON value.
Junk == Tok("junk", "", 0)

\* Number of bytes the token stands for:  {  "from":"s"  ,"to":"s"
\* ,"value":n  ,"data":"s"  }  and the newline.
TokLen(t) ==
    CASE t.k = "from" -> 9 + StrLen(t.s)
      [] t.k = "to" -> 8 + StrLen(t.s)
      [] t.k = "value" -> 9 + Digits(t.n)
      [] t.k = "data" -> 10 + StrLen(t.s)
      [] OTHER -> 1

RECURSIVE ByteLen(_)
ByteLen(ts) == IF ts = <<>> THEN 0 ELSE TokLen(Head(ts)) + ByteLen(Tail(ts))

\* json.Marshal writes a string coerced to valid UTF-8: invalid bytes become
\* the replacement rune.
Coerce(s) == IF s = BadUtf8 THEN ReplacementRune ELSE s

\* json.Marshal(tx); it returns no error for a struct of strings and a uint.
Marshal(t) ==
    << Tok("{", "", 0),
       Tok("from", Coerce(t.From), 0),
       Tok("to", Coerce(t.To), 0),
       Tok("value", "", t.Value),
       Tok("data", Coerce(t.Data), 0),
       Tok("}", "", 0) >>

\* append(txJson, '\n')
Frame(t) == Marshal(t) \o <<Newline>>

FieldKeys == {"from", "to", "value", "data"}

\* The last field of the object with key k, or none.
RECURSIVE LastField(_, _, _)
LastField(fields, k, dflt) ==
    IF fields = <<>> THEN dflt
    ELSE LET f == fields[Len(fields)]
         IN  IF f.k = k THEN f
             ELSE LastField(SubSeq(fields, 1, Len(fields) - 1), k, dflt)

\* json.Unmarshal(line, &tx): the line must be exactly one JSON object; a
\* field that is absent keeps the zero value; a number that does not fit a
\* uint is an error.
Unmarshal(line) ==
    IF \/ Len(line) < 2
       \/ line[1].k # "{"
       \/ line[Len(line)].k # "}"
       \/ \E i \in 2..(Len(line) - 1) : line[i].k \notin FieldKeys
    THEN [err |-> "decode", tx |-> Tx("", "", 0, "")]
    ELSE LET fields == SubSeq(line, 2, Len(line) - 1)
             v == LastField(fields, "value", Tok("value", "", 0)).n
         IN  IF v > MaxUint
             THEN [err |-> "decode", tx |-> Tx("", "", 0, "")]
             ELSE [err |-> "",
                   tx |-> Tx(LastField(fields, "from", Tok("from", "", 0)).s,
                             LastField(fields, "to", Tok("to", "", 0)).s,
                             v,
                             LastField(fields, "data", Tok("data", "", 0)).s)]

----------------------------------------------------------------------------
(* bufio.Scanner with the default split function ScanLines *)

\* Index of the first newline of bytes, or 0.
RECURSIVE NewlineAt(_, _)
NewlineAt(bytes, i) ==
    IF i > Len(bytes) THEN 0
    ELSE IF bytes[i] = Newline THEN i ELSE NewlineAt(bytes, i + 1)

\* One call of scanner.Scan() on the unread bytes: ok is its result, line
\* is scanner.Bytes(), rest the bytes left unread, err is scanner.Err().
\* A final line without newline is returned as a token; a line that does
\* not fit the buffer stops the scan with ErrTooLong.
Scan(bytes) ==
    LET i == NewlineAt(bytes, 1)
        line == IF i = 0 THEN bytes ELSE SubSeq(bytes, 1, i - 1)
        rest == IF i = 0 THEN <<>> ELSE SubSeq(bytes, i + 1, Len(bytes))
    IN  IF bytes = <<>>
        THEN [ok |-> FALSE, line |-> <<>>, rest |-> <<>>, err |-> ""]
        ELSE IF ByteLen(line) >= MaxScanTokenSize
        THEN [ok |-> FALSE, line |-> <<>>, rest |-> bytes, err |-> "toolong"]
        ELSE [ok |-> TRUE, line |-> line, rest |-> rest, err |-> ""]

----------------------------------------------------------------------------
(* NewStateFromDisk: the replay loop *)

\* for scanner.Scan() { Unmarshal; Apply }: err is the error returned ("" is
\* nil), bal the balances built, applied the transactions applied, scanErr
\* what scanner.Err() holds when the loop ends, unread the bytes never
\* handed to Unmarshal.
RECURSIVE ReplayLoop(_, _, _)
ReplayLoop(b, bytes, applied) ==
    LET sc == Scan(bytes)
        dec == Unmarshal(sc.line)
        ap == Apply(b, dec.tx)
    IN  IF ~sc.ok
        THEN [err |-> "", bal |-> b, applied |-> applied,
              scanErr |-> sc.err, unread |-> sc.rest]
        ELSE IF dec.err # ""
        THEN [err |-> dec.err, bal |-> b, applied |-> applied,
              scanErr |-> "", unread |-> sc.rest]
        ELSE IF ap.err # ""
        THEN [err |-> ap.err, bal |-> b, applied |-> applied,
              scanErr |-> "", unread |-> sc.rest]
        ELSE ReplayLoop(ap.bal, sc.rest, Append(applied, dec.tx))

\* balances := make(map); for account, balance := range gen.Balances {...}
CopyMap(m) == [a \in DOMAIN m |-> m[a]]

\* What a fresh process gets from NewStateFromDisk for this genesis and log.
Replay(g, bytes) == ReplayLoop(CopyMap(g), bytes, <<>>)

----------------------------------------------------------------------------
(* State.Persist: the write loop *)

WriteTruncate(file, bytes, n) ==
    [file |-> SubSeq(bytes, 1, n),
     err |-> IF n = Len(bytes) THEN "" ELSE "write"]

\* s.DbFile.Write(bytes) on a file opened O_APPEND: n of the bytes reach the
\* end of the file; the call returns an error unless all of them did.
Write(file, bytes, n) ==
    [file |-> file \o SubSeq(bytes, 1, n),
     err |-> IF n = Len(bytes) THEN "" ELSE "write"]

ResliceBulk(h) == <<>>

\* s.TxMempool[1:] of a slice that is not empty
Reslice(h) == Tail(h)

\* for _, tx := range mempool { Marshal; Write; s.TxMempool = s.TxMempool[1:] }
\* from entry i of the copy on; the first k writes succeed and write k+1,
\* when there is one, emits n bytes and fails.  mp is the live s.TxMempool.
RECURSIVE PersistLoopBulk(_, _, _, _, _, _)
PersistLoopBulk(mp, file, mempool, i, k, n) ==
    IF i > Len(mempool)
    THEN [err |-> "", mp |-> mp, file |-> file]
    ELSE LET bytes == Frame(mempool[i])
             w == Write(file, bytes, IF i <= k THEN Len(bytes) ELSE n)
         IN  IF w.err # ""
             THEN [err |-> w.err, mp |-> mp, file |-> w.file]
             ELSE PersistLoopBulk(<<>>, w.file, mempool, i + 1, k, n)

RECURSIVE PersistLoopTrailer(_, _, _, _, _, _)
PersistLoopTrailer(mp, file, mempool, i, k, n) ==
    IF i > Len(mempool)
    THEN [err |-> "", mp |-> mp, file |-> file \o <<Newline>>]
    ELSE LET bytes == Frame(mempool[i])
             w == Write(file, bytes, IF i <= k THEN Len(bytes) ELSE n)
         IN  IF w.err # ""
             THEN [err |-> w.err, mp |-> mp, file |-> w.file]
             ELSE PersistLoopTrailer(Reslice(mp), w.file, mempool, i + 1, k, n)

RECURSIVE PersistLoop(_, _, _, _, _, _)
PersistLoop(mp, file, mempool, i, k, n) ==
    IF i > Len(mempool)
    THEN [err |-> "", mp |-> mp, file |-> file]
    ELSE LET bytes == Frame(mempool[i])
             w == Write(file, bytes, IF i <= k THEN Len(bytes) ELSE n)
         IN  IF w.err # ""
             THEN [err |-> w.err, mp |-> mp, file |-> w.file]
             ELSE PersistLoop(Reslice(mp), w.file, mempool, i + 1, k, n)

----------------------------------------------------------------------------
(* NewStateFromDisk: the files and the balances map *)

OpenFileCreate(exists, content) ==
    [err |-> "", exists |-> TRUE, content |-> IF exists THEN content ELSE <<>>]

\* os.OpenFile(txDbFilePath, os.O_APPEND|os.O_RDWR, 0600): no O_CREATE, so a
\* missing file is an error and stays missing.
OpenFile(exists, content) ==
    [err |-> IF exists THEN "" ELSE "open",
     exists |-> exists,
     content |-> IF exists THEN content ELSE <<>>]

InitialMempoolReplayed(applied) == applied

\* TxMempool: make([]transaction.Tx, 0): the replayed transactions are
\* applied and not enqueued.
InitialMempool(applied) == <<>>

GenesisMap == "gen.Balances"

BalancesMapAliased == GenesisMap

\* balances := make(map[string]uint): the map object State.Balances refers
\* to is a new one, filled from gen.Balances entry by entry.
BalancesMap == "balances"

\* gen.Balances after State.Balances has become b: written through only when
\* both are one map object.
GenAfter(g, b) == IF BalancesMap = GenesisMap THEN b ELSE g

----------------------------------------------------------------------------
(* The State of package main: unexported apply, an index loop in Persist, a
   scanner.Err() check inside the replay loop.  It runs on a tx.db of its
   own with the same content. *)

\* (s *State) apply(tx)
applyMain(b, t) ==
    IF IsReward(t)
    THEN [err |-> "", bal |-> Put(b, t.To, UAdd(Get(b, t.To), t.Value))]
    ELSE IF t.Value > Get(b, t.From)
         THEN [err |-> "insufficient", bal |-> b]
         ELSE LET b1 == Put(b, t.From, USub(Get(b, t.From), t.Value))
                  b2 == Put(b1, t.To, UAdd(Get(b1, t.To), t.Value))
              IN  [err |-> "", bal |-> b2]

\* for scanner.Scan() { if err := scanner.Err(); err != nil { return nil, err }
\* Unmarshal; apply }
RECURSIVE MainReplayLoop(_, _)
MainReplayLoop(b, bytes) ==
    LET sc == Scan(bytes)
        dec == Unmarshal(sc.line)
        ap == applyMain(b, dec.tx)
    IN  IF ~sc.ok THEN [err |-> "", bal |-> b]
        ELSE IF sc.err # "" THEN [err |-> sc.err, bal |-> b]
        ELSE IF dec.err # "" THEN [err |-> dec.err, bal |-> b]
        ELSE IF ap.err # "" THEN [err |-> ap.err, bal |-> b]
        ELSE MainReplayLoop(ap.bal, sc.rest)

RECURSIVE MainPersistLoopKeep(_, _, _, _, _, _)
MainPersistLoopKeep(mp, file, mempool, i, k, n) ==
    IF ~(i < Len(mempool))
    THEN [err |-> "", mp |-> mp, file |-> file]
    ELSE LET bytes == Frame(mempool[i + 1])
             w == Write(file, bytes, IF i < k THEN Len(bytes) ELSE n)
         IN  IF w.err # ""
             THEN [err |-> w.err, mp |-> mp, file |-> w.file]
             ELSE MainPersistLoopKeep(mp, w.file, mempool, i + 1, k, n)

\* for i := 0; i < len(mempool); i++ { Marshal(mempool[i]); Write;
\* s.txMempool = s.txMempool[1:] }: the first k writes succeed and write k+1,
\* when there is one, emits n bytes and fails
RECURSIVE MainPersistLoop(_, _, _, _, _, _)
MainPersistLoop(mp, file, mempool, i, k, n) ==
    IF ~(i < Len(mempool))
    THEN [err |-> "", mp |-> mp, file |-> file]
    ELSE LET bytes == Frame(mempool[i + 1])
             w == Write(file, bytes, IF i < k THEN Len(bytes) ELSE n)
         IN  IF w.err # ""
             THEN [err |-> w.err, mp |-> mp, file |-> w.file]
             ELSE MainPersistLoop(Reslice(mp), w.file, mempool, i + 1, k, n)

\* main before NewStateFromDisk, on a tx.db that holds file
MainStart(file) ==
    [pc |-> "start", Balances |-> EmptyMap, txMempool |-> <<>>,
     dbFile |-> file, err |-> ""]

\* NewStateFromDisk() of package main
MainNewStateFromDisk(ok, g, exists, file) ==
    LET f == OpenFile(exists, file)
        r == MainReplayLoop(CopyMap(g), f.content)
        err == IF ~ok THEN "genesis"
               ELSE IF f.err # "" THEN f.err
               ELSE r.err
    IN  [pc |-> IF err = "" THEN "live" ELSE "failed",
         Balances |-> IF err = "" THEN r.bal ELSE EmptyMap,
         txMempool |-> <<>>,
         dbFile |-> file,
         err |-> err]

\* (s *State) Add(tx) of package main
MainAdd(st, t) ==
    LET r == applyMain(st.Balances, t)
    IN  [st EXCEPT !.Balances = r.bal,
                   !.txMempool = IF r.err = "" THEN Append(st.txMempool, t)
                                 ELSE st.txMempool,
                   !.err = r.err]

\* (s *State) Persist() of package main
MainPersist(st, k, n) ==
    LET mempool == st.txMempool
        r == MainPersistLoop(st.txMempool, st.dbFile, mempool, 0, k, n)
    IN  [st EXCEPT !.txMempool = r.mp, !.dbFile = r.file, !.err = r.err]

----------------------------------------------------------------------------
(* Inputs *)

Accounts == {"A", "B", "C"}

\* every map of Accounts to uint, absent keys included
AllBalances ==
    UNION { [S -> 0..MaxUint] : S \in SUBSET Accounts }

\* every transaction over Accounts, with and without the reward marker
TxAll ==
    { Tx(f, t, v, d) : f \in Accounts, t \in Accounts,
                       v \in 0..MaxUint, d \in {"", "reward"} }

\* the transactions submitted to a running ledger
TxInputs ==
    { Tx("A", "B", 1, ""),
      Tx("B", "A", 2, ""),
      Tx("A", "A", 1, ""),
      Tx("C", "B", 0, ""),
      Tx("C", "B", MaxUint, "reward"),
      Tx("A", BadUtf8, 1, "reward"),
      Tx("A", "B", 1, LongData) }

\* database/genesis.json: <<readable, balances>>
GenesisInputs ==
    { <<TRUE, [a \in {"A"} |-> 2]>>,
      <<TRUE, [a \in {"A", "B"} |-> IF a = "A" THEN 1 ELSE MaxUint]>>,
      <<FALSE, EmptyMap>> }

\* database/tx.db: <<openable, content>>
DbInputs ==
    { <<TRUE, <<>> >>,
      <<TRUE, Frame(Tx("A", "B", 1, ""))>>,
      <<TRUE, Marshal(Tx("A", "B", 1, ""))>>,
      <<TRUE, <<Junk, Newline>> \o Frame(Tx("A", "B", 1, ""))>>,
      <<TRUE, Frame(Tx("A", "B", 1, LongData)) \o Frame(Tx("A", "B", 1, ""))>>,
      <<TRUE, Frame(Tx("B", "A", MaxUint, ""))>>,
      <<FALSE, <<>> >> }

\* byte counts of a Write that fails: nothing, a torn frame, all but the
\* newline
ShortWrites(bytes) == {0, Len(bytes) \div 2, Len(bytes) - 1}

----------------------------------------------------------------------------
(* The state machine *)

Goroutines == 1..MaxCallers

\* a goroutine that is in no call of the State
Idle == [pc |-> "idle", tx |-> Tx("", "", 0, ""), h |-> <<>>, mempool |-> <<>>,
         i |-> 0, mark |-> [accepted |-> 0, written |-> 0]]

Call(op, t, err, k, n) == [op |-> op, tx |-> t, err |-> err, k |-> k, n |-> n]

NoTx == Tx("", "", 0, "")

Init ==
    /\ pc = "start"
    /\ \E g \in GenesisInputs : genesisOk = g[1] /\ genesis = g[2]
    /\ \E d \in DbInputs : dbExists = d[1] /\ dbFile = d[2]
    /\ durable = Len(dbFile)
    /\ gen = EmptyMap
    /\ gor = [g \in Goroutines |-> Idle]
    /\ crashes = 0
    /\ mainState = MainStart(dbFile)
    /\ Balances = EmptyMap
    /\ TxMempool = <<>>
    /\ bootFile = <<>>
    /\ replayed = <<>>
    /\ unread = <<>>
    /\ accepted = <<>>
    /\ written = <<>>
    /\ nfail = 0
    /\ last = Call("none", NoTx, "", 0, 0)

\* state.NewStateFromDisk(): a *State only when every step returned nil
NewStateFromDisk ==
    /\ pc = "start"
    /\ LET f == OpenFile(dbExists, dbFile)
           r == Replay(genesis, f.content)
           err == IF ~genesisOk THEN "genesis"
                  ELSE IF f.err # "" THEN f.err
                  ELSE r.err
       IN  /\ pc' = IF err = "" THEN "live" ELSE "failed"
           /\ dbExists' = IF genesisOk THEN f.exists ELSE dbExists
           /\ gen' = IF genesisOk THEN GenAfter(genesis, r.bal) ELSE EmptyMap
           /\ Balances' = IF err = "" THEN r.bal ELSE EmptyMap
           /\ bootFile' = IF genesisOk /\ f.err = "" THEN f.content ELSE <<>>
           /\ replayed' = IF err = "" THEN r.applied ELSE <<>>
           /\ unread' = IF err = "" THEN r.unread ELSE <<>>
           /\ TxMempool' = IF err = "" THEN InitialMempool(r.applied) ELSE <<>>
           /\ last' = Call("NewStateFromDisk", NoTx, err, 0, 0)
    /\ accepted' = <<>>
    /\ written' = <<>>
    /\ mainState' = MainNewStateFromDisk(genesisOk, genesis, dbExists,
                                         mainState.dbFile)
    /\ UNCHANGED <<genesisOk, genesis, dbFile, durable, nfail, crashes, gor>>

AddOnce(t) ==
    /\ pc = "live"
    /\ LET seen == \E i \in 1..Len(replayed \o accepted) :
                       (replayed \o accepted)[i] = t
           r == IF seen THEN [err |-> "replay", bal |-> Balances]
                ELSE Apply(Balances, t)
       IN  /\ Balances' = r.bal
           /\ TxMempool' = IF r.err = "" THEN Append(TxMempool, t) ELSE TxMempool
           /\ accepted' = IF r.err = "" THEN Append(accepted, t) ELSE accepted
           /\ gen' = GenAfter(gen, r.bal)
           /\ last' = Call("Add", t, r.err, 0, 0)
    /\ mainState' = MainAdd(mainState, t)
    /\ UNCHANGED <<pc, genesisOk, genesis, dbExists, dbFile, durable, bootFile,
                   replayed, unread, written, nfail, crashes, gor>>

\* (s *State) Add(tx)
Add(t) ==
    /\ pc = "live"
    /\ LET r == Apply(Balances, t)
       IN  /\ Balances' = r.bal
           /\ TxMempool' = IF r.err = "" THEN Append(TxMempool, t) ELSE TxMempool
           /\ accepted' = IF r.err = "" THEN Append(accepted, t) ELSE accepted
           /\ gen' = GenAfter(gen, r.bal)
           /\ last' = Call("Add", t, r.err, 0, 0)
    /\ mainState' = MainAdd(mainState, t)
    /\ UNCHANGED <<pc, genesisOk, genesis, dbExists, dbFile, durable, bootFile,
                   replayed, unread, written, nfail, crashes, gor>>

\* (s *State) Persist(): the first k writes succeed; write k+1, when the
\* copy has one, emits n bytes of its frame and fails
Persist ==
    /\ pc = "live"
    /\ \E k \in 0..Len(TxMempool) :
       \E n \in (IF k < Len(TxMempool) THEN ShortWrites(Frame(TxMempool[k + 1])) ELSE {0}) :
         LET mempool == TxMempool
             r == PersistLoop(TxMempool, dbFile, mempool, 1, k, n)
         IN  /\ k < Len(TxMempool) => nfail < MaxFails
             /\ TxMempool' = r.mp
             /\ dbFile' = r.file
             /\ written' = written \o SubSeq(mempool, 1, k)
             /\ nfail' = IF r.err = "" THEN nfail ELSE nfail + 1
             /\ last' = Call("Persist", NoTx, r.err, k, n)
             /\ mainState' = MainPersist(mainState, k, n)
    /\ UNCHANGED <<pc, genesisOk, genesis, dbExists, durable, gen, Balances,
                   bootFile, replayed, unread, accepted, crashes, gor>>

\* a caller submits one of TxInputs
AddLive == Len(accepted) < MaxAdds /\ \E t \in TxInputs : Add(t)

Next == NewStateFromDisk \/ AddLive \/ Persist

Spec == Init /\ [][Next]_vars

\* The kernel writes dirty pages of tx.db to the disk when it chooses to:
\* Persist never calls s.DbFile.Sync().
Writeback ==
    /\ durable < Len(dbFile)
    /\ \E d \in {durable + (Len(dbFile) - durable + 1) \div 2, Len(dbFile)} :
           durable' = d
    /\ UNCHANGED <<pc, genesisOk, genesis, dbExists, dbFile, gen, Balances,
                   TxMempool, bootFile, replayed, unread, accepted, written,
                   nfail, last, crashes, mainState, gor>>

\* The process dies, alone (the page cache survives) or with the machine
\* (the bytes not yet on the disk are gone). Memory is lost; a crash inside
\* Persist leaves what a Persist followed by a loss of power leaves. The
\* next process starts at main.
Crash ==
    /\ pc = "live"
    /\ crashes < MaxCrashes
    /\ \E power \in BOOLEAN :
           /\ dbFile' = IF power THEN SubSeq(dbFile, 1, durable) ELSE dbFile
           /\ last' = Call("Crash", NoTx, IF power THEN "power" ELSE "", 0, 0)
    /\ durable' = durable
    /\ pc' = "start"
    /\ gen' = EmptyMap
    /\ Balances' = EmptyMap
    /\ TxMempool' = <<>>
    /\ crashes' = crashes + 1
    /\ mainState' = MainStart(dbFile')
    /\ UNCHANGED <<genesisOk, genesis, dbExists, bootFile, replayed, unread,
                   accepted, written, nfail, gor>>

\* the transactions submitted to the ledger that is going to crash
TxCrash ==
    { Tx("A", "B", 1, ""),
      Tx("B", "A", 2, ""),
      Tx("A", "B", 1, LongData) }

\* a readable genesis and a log that is empty or holds one record
InitCrash ==
    /\ Init
    /\ genesisOk
    /\ genesis = [a \in {"A"} |-> 2]
    /\ dbExists
    /\ dbFile \in {<<>>, Frame(Tx("A", "B", 1, ""))}

\* the callers of the first process submit; the processes started after a
\* crash replay and persist
AddFirst ==
    /\ crashes = 0
    /\ Len(accepted) < MaxAdds
    /\ \E t \in TxCrash : Add(t)

NextCrash == NewStateFromDisk \/ AddFirst \/ Persist \/ Writeback \/ Crash

SpecCrash == InitCrash /\ [][NextCrash]_vars

----------------------------------------------------------------------------
(* Add and Persist statement by statement, for callers in goroutines.  The
   State has no lock: each read and each write of s.Balances and s.TxMempool
   is a step of its own, and steps of different callers interleave. *)

diskVars == <<genesisOk, genesis, dbExists, durable, bootFile, replayed,
              unread, crashes, mainState>>

\* the transactions the callers submit
TxConc ==
    { Tx("A", "B", 2, ""),
      Tx("A", "B", 1, ""),
      Tx("B", "A", 1, "") }

InAdd(g) == gor[g].pc \in {"debit", "credit", "load", "store"}

\* Add(tx), Apply: if tx.Value > s.Balances[tx.From] { return error }
AddCall(g, t) ==
    /\ pc = "live"
    /\ gor[g].pc = "idle"
    /\ Len(accepted) + Cardinality({ x \in Goroutines : InAdd(x) }) < MaxAdds
    /\ IF ~IsReward(t) /\ t.Value > Get(Balances, t.From)
       THEN /\ last' = Call("Add", t, "insufficient", 0, 0)
            /\ gor' = gor
       ELSE /\ last' = last
            /\ gor' = [gor EXCEPT ![g] =
                          [Idle EXCEPT !.tx = t,
                                       !.pc = IF IsReward(t) THEN "credit"
                                              ELSE "debit"]]
    /\ UNCHANGED <<pc, dbFile, gen, Balances, TxMempool, accepted, written,
                   nfail, diskVars>>

\* Apply: s.Balances[tx.From] -= tx.Value
AddDebit(g) ==
    /\ pc = "live"
    /\ gor[g].pc = "debit"
    /\ LET t == gor[g].tx
           b == Put(Balances, t.From, USub(Get(Balances, t.From), t.Value))
       IN  /\ Balances' = b
           /\ gen' = GenAfter(gen, b)
    /\ gor' = [gor EXCEPT ![g].pc = "credit"]
    /\ UNCHANGED <<pc, dbFile, TxMempool, accepted, written, nfail, last,
                   diskVars>>

\* Apply: s.Balances[tx.To] += tx.Value
AddCredit(g) ==
    /\ pc = "live"
    /\ gor[g].pc = "credit"
    /\ LET t == gor[g].tx
           b == Put(Balances, t.To, UAdd(Get(Balances, t.To), t.Value))
       IN  /\ Balances' = b
           /\ gen' = GenAfter(gen, b)
    /\ gor' = [gor EXCEPT ![g].pc = "load"]
    /\ UNCHANGED <<pc, dbFile, TxMempool, accepted, written, nfail, last,
                   diskVars>>

\* Add: the read of s.TxMempool in append(s.TxMempool, tx)
AddLoad(g) ==
    /\ pc = "live"
    /\ gor[g].pc = "load"
    /\ gor' = [gor EXCEPT ![g].pc = "store", ![g].h = TxMempool]
    /\ UNCHANGED <<pc, dbFile, gen, Balances, TxMempool, accepted, written,
                   nfail, last, diskVars>>

\* Add: s.TxMempool = append(...); return nil
AddStore(g) ==
    /\ pc = "live"
    /\ gor[g].pc = "store"
    /\ TxMempool' = Append(gor[g].h, gor[g].tx)
    /\ accepted' = Append(accepted, gor[g].tx)
    /\ last' = Call("Add", gor[g].tx, "", 0, 0)
    /\ gor' = [gor EXCEPT ![g] = Idle]
    /\ UNCHANGED <<pc, dbFile, gen, Balances, written, nfail, diskVars>>

\* Persist: mempool := make(...); copy(mempool, s.TxMempool).  mark is
\* history: how many transactions had been accepted, and how many written,
\* at the copy.
PersistCall(g) ==
    /\ pc = "live"
    /\ gor[g].pc = "idle"
    /\ gor' = [gor EXCEPT ![g] =
                  [Idle EXCEPT !.pc = "write", !.mempool = TxMempool, !.i = 1,
                               !.mark = [accepted |-> Len(accepted),
                                         written |-> Len(written)]]]
    /\ UNCHANGED <<pc, dbFile, gen, Balances, TxMempool, accepted, written,
                   nfail, last, diskVars>>

\* Persist: json.Marshal(tx); s.DbFile.Write(append(txJson, '\n')) of entry
\* i of the copy; return err when the write fails
PersistWrite(g) ==
    /\ pc = "live"
    /\ gor[g].pc = "write"
    /\ gor[g].i <= Len(gor[g].mempool)
    /\ LET t == gor[g].mempool[gor[g].i]
           bytes == Frame(t)
       IN  \E n \in ShortWrites(bytes) \cup {Len(bytes)} :
             LET w == Write(dbFile, bytes, n)
             IN  /\ w.err # "" => nfail < MaxFails
                 /\ dbFile' = w.file
                 /\ IF w.err # ""
                    THEN /\ nfail' = nfail + 1
                         /\ written' = written
                         /\ last' = Call("Persist", NoTx, w.err, gor[g].i - 1, n)
                         /\ gor' = [gor EXCEPT ![g] = Idle]
                    ELSE /\ nfail' = nfail
                         /\ written' = Append(written, t)
                         /\ last' = last
                         /\ gor' = [gor EXCEPT ![g].pc = "rload"]
    /\ UNCHANGED <<pc, gen, Balances, TxMempool, accepted, diskVars>>

\* Persist: the read of s.TxMempool in s.TxMempool[1:]; slicing an empty
\* slice from 1 panics and the process ends
PersistLoad(g) ==
    /\ pc = "live"
    /\ gor[g].pc = "rload"
    /\ IF TxMempool = <<>>
       THEN /\ pc' = "panicked"
            /\ last' = Call("Persist", NoTx, "panic", gor[g].i, 0)
            /\ gor' = gor
       ELSE /\ pc' = pc
            /\ last' = last
            /\ gor' = [gor EXCEPT ![g].pc = "rstore", ![g].h = TxMempool]
    /\ UNCHANGED <<dbFile, gen, Balances, TxMempool, accepted, written, nfail,
                   diskVars>>

\* Persist: s.TxMempool = ...[1:], and the next iteration
PersistStore(g) ==
    /\ pc = "live"
    /\ gor[g].pc = "rstore"
    /\ TxMempool' = Reslice(gor[g].h)
    /\ gor' = [gor EXCEPT ![g].pc = "write", ![g].i = gor[g].i + 1,
                          ![g].h = <<>>]
    /\ UNCHANGED <<pc, dbFile, gen, Balances, accepted, written, nfail, last,
                   diskVars>>

\* Persist: return nil after the last entry of the copy
PersistReturn(g) ==
    /\ pc = "live"
    /\ gor[g].pc = "write"
    /\ gor[g].i > Len(gor[g].mempool)
    /\ last' = Call("Persist", NoTx, "", Len(gor[g].mempool), 0)
    /\ gor' = [gor EXCEPT ![g] = Idle]
    /\ UNCHANGED <<pc, dbFile, gen, Balances, TxMempool, accepted, written,
                   nfail, diskVars>>

AddSubmit(g) == \E t \in TxConc : AddCall(g, t)

\* one statement of one of the callers in G
Steps(G) ==
    \E g \in G :
        \/ AddSubmit(g)
        \/ AddDebit(g)
        \/ AddCredit(g)
        \/ AddLoad(g)
        \/ AddStore(g)
        \/ PersistCall(g)
        \/ PersistWrite(g)
        \/ PersistLoad(g)
        \/ PersistStore(g)
        \/ PersistReturn(g)

\* one caller, as in main
NextSeq == NewStateFromDisk \/ Steps({1})

SpecSeq == InitCrash /\ [][NextSeq]_vars

\* callers in several goroutines
NextConc == NewStateFromDisk \/ Steps(Goroutines)

SpecConc == InitCrash /\ [][NextConc]_vars

\* Apply as a function of the balances and the transaction: any genesis
\* balances, a log that is empty or holds one record, one replay and, on the
\* empty log, one Add of any transaction.
InitApply ==
    /\ pc = "start"
    /\ genesisOk = TRUE
    /\ genesis \in AllBalances
    /\ dbExists = TRUE
    /\ dbFile \in {<<>>} \cup { Frame(t) : t \in TxAll }
    /\ durable = Len(dbFile)
    /\ gen = EmptyMap
    /\ gor = [g \in Goroutines |-> Idle]
    /\ crashes = 0
    /\ mainState = MainStart(dbFile)
    /\ Balances = EmptyMap
    /\ TxMempool = <<>>
    /\ bootFile = <<>>
    /\ replayed = <<>>
    /\ unread = <<>>
    /\ accepted = <<>>
    /\ written = <<>>
    /\ nfail = 0
    /\ last = Call("none", NoTx, "", 0, 0)

AddAny ==
    /\ last.op = "NewStateFromDisk"
    /\ bootFile = <<>>
    /\ \E t \in TxAll : Add(t)

NextApply == NewStateFromDisk \/ AddAny

SpecApply == InitApply /\ [][NextApply]_vars

\* the same, with Persist calls after the Add
NextApplyPersist == NewStateFromDisk \/ AddAny \/ Persist

SpecApplyPersist == InitApply /\ [][NextApplyPersist]_vars

----------------------------------------------------------------------------
(* The tutorial ledger: State{Balances map[string]int} and makeTransaction.
   Its State.Balances is the variable Balances, its result is in last. *)

\* int, two's complement of IntBits bits
IntMod == 2 ^ IntBits
MinInt == 0 - IntMod \div 2
MaxInt == IntMod \div 2 - 1
IntWrap(x) == ((x - MinInt) % IntMod) + MinInt

\* makeTransaction(state, from, to, amount)
makeTransaction(b, from, to, amount) ==
    IF from \notin DOMAIN b
    THEN [err |-> "absent", bal |-> b]
    ELSE IF b[from] < amount
    THEN [err |-> "insufficient", bal |-> b]
    ELSE LET b1 == Put(b, from, IntWrap(Get(b, from) - amount))
             b2 == Put(b1, to, IntWrap(Get(b1, to) + amount))
         IN  [err |-> "", bal |-> b2]

\* every map of some of Accounts to a non-negative int
TutorialBalances ==
    UNION { [S -> 0..MaxInt] : S \in SUBSET Accounts }

InitTutorial ==
    /\ pc = "tutorial"
    /\ genesisOk = TRUE
    /\ genesis = EmptyMap
    /\ dbExists = FALSE
    /\ dbFile = <<>>
    /\ durable = 0
    /\ gen = EmptyMap
    /\ gor = [g \in Goroutines |-> Idle]
    /\ crashes = 0
    /\ mainState = MainStart(dbFile)
    /\ Balances \in TutorialBalances
    /\ TxMempool = <<>>
    /\ bootFile = <<>>
    /\ replayed = <<>>
    /\ unread = <<>>
    /\ accepted = <<>>
    /\ written = <<>>
    /\ nfail = 0
    /\ last = Call("none", NoTx, "", 0, 0)

\* main: err = makeTransaction(state, from, to, amount), once
MakeTransaction ==
    /\ pc = "tutorial"
    /\ last.op = "none"
    /\ \E from \in Accounts, to \in Accounts, amount \in MinInt..MaxInt :
         LET r == makeTransaction(Balances, from, to, amount)
         IN  /\ Balances' = r.bal
             /\ last' = Call("makeTransaction", Tx(from, to, amount, ""),
                             r.err, 0, 0)
    /\ UNCHANGED <<pc, genesisOk, genesis, dbExists, dbFile, durable, gen,
                   TxMempool, bootFile, replayed, unread, accepted, written,
                   nfail, crashes, mainState, gor>>

NextTutorial == MakeTransaction

SpecTutorial == InitTutorial /\ [][NextTutorial]_vars

----------------------------------------------------------------------------
(* Helpers of the properties *)

\* the frames of ts, one after the other
RECURSIVE Frames(_)
Frames(ts) == IF ts = <<>> THEN <<>> ELSE Frame(Head(ts)) \o Frames(Tail(ts))

\* number of lines of a file, a final line without newline included
RECURSIVE NumLines(_)
NumLines(bytes) ==
    LET i == NewlineAt(bytes, 1)
    IN  IF bytes = <<>> THEN 0
        ELSE IF i = 0 THEN 1
        ELSE 1 + NumLines(SubSeq(bytes, i + 1, Len(bytes)))

\* the file's last bytes are bytes
EndsWith(file, bytes) ==
    /\ Len(file) >= Len(bytes)
    /\ SubSeq(file, Len(file) - Len(bytes) + 1, Len(file)) = bytes

\* file1 is the beginning of file2
IsPrefix(file1, file2) ==
    /\ Len(file1) <= Len(file2)
    /\ SubSeq(file2, 1, Len(file1)) = file1

\* the sum of all balances of a map
RECURSIVE Total(_)
Total(b) ==
    IF DOMAIN b = {} THEN 0
    ELSE LET a == CHOOSE x \in DOMAIN b : TRUE
         IN  b[a] + Total([x \in DOMAIN b \ {a} |-> b[x]])

\* the same entry in both maps: present in both with one value, or in neither
SameEntry(m1, m2, a) ==
    /\ (a \in DOMAIN m1) <=> (a \in DOMAIN m2)
    /\ Get(m1, a) = Get(m2, a)

----------------------------------------------------------------------------
(* C1 *)

----------------------------------------------------------------------------
(* C2 *)

\* C2: when Persist returns success after successful Add calls (no write
\* has failed before), a fresh NewStateFromDisk on the genesis and the
\* resulting log succeeds and yields the in-memory Balances.
C2_RoundTrip ==
    (pc = "live" /\ last.op = "Persist" /\ last.err = "" /\ nfail = 0) =>
        LET r == Replay(genesis, dbFile)
        IN  r.err = "" /\ r.bal = Balances

----------------------------------------------------------------------------
(* C3 *)

\* C3: the bytes appended to the log since startup are exactly the frames
\* of a prefix of the accepted transactions, and the Mempool is the rest of
\* them: no entry twice, none dropped.
C3_NoEntryTwiceNorDropped ==
    pc = "live" =>
        \E j \in 0..Len(accepted) :
            /\ dbFile = bootFile \o Frames(SubSeq(accepted, 1, j))
            /\ TxMempool = SubSeq(accepted, j + 1, Len(accepted))

----------------------------------------------------------------------------
(* C4 *)

\* C4: a Persist whose write of entry k+1 fails returns failure, leaves the
\* Mempool entries from k+1 on, and the log has gained exactly the frames
\* of entries 1..k, in order.
C4_OrderPreservingDrain ==
    [][ (last'.op = "Persist" /\ last'.k < Len(TxMempool)) =>
            /\ last'.err # ""
            /\ TxMempool' = SubSeq(TxMempool, last'.k + 1, Len(TxMempool))
            /\ dbFile' = dbFile \o Frames(SubSeq(TxMempool, 1, last'.k)) ]_vars

----------------------------------------------------------------------------
(* C5 *)

\* C5: an Add of a non-reward transaction whose value exceeds the sender's
\* balance fails and changes neither Balances (no entry created, none
\* changed), nor the Mempool, nor the log.
C5_AtomicRejection ==
    [][ (/\ last'.op = "Add"
         /\ ~IsReward(last'.tx)
         /\ last'.tx.Value > Get(Balances, last'.tx.From)) =>
            /\ last'.err = "insufficient"
            /\ Balances' = Balances
            /\ TxMempool' = TxMempool
            /\ accepted' = accepted
            /\ dbFile' = dbFile ]_vars

\* a transfer was rejected for insufficient balance while the Mempool and
\* the log held entries, the sender being absent from Balances
C5_Witness ==
    /\ last.op = "Add" /\ last.err = "insufficient"
    /\ last.tx.From \notin DOMAIN Balances
    /\ last.tx.Value > Get(Balances, last.tx.From)
    /\ TxMempool # <<>> /\ dbFile # <<>>

----------------------------------------------------------------------------
(* C6 *)

\* C6: an Add of a reward transaction {X, Y, v} succeeds whatever
\* Balances[X] is, leaves Balances[Y] at its old value plus v, leaves the
\* entry of X untouched (X other than Y), and appends the transaction to
\* the Mempool.
C6_RewardExemption ==
    [][ (last'.op = "Add" /\ IsReward(last'.tx)) =>
            /\ last'.err = ""
            /\ Get(Balances', last'.tx.To) = Get(Balances, last'.tx.To) + last'.tx.Value
            /\ last'.tx.From # last'.tx.To =>
                   SameEntry(Balances', Balances, last'.tx.From)
            /\ TxMempool' = Append(TxMempool, last'.tx) ]_vars

----------------------------------------------------------------------------
(* C7 *)

\* the debit of t on before was covered by the sender's balance and after
\* holds the difference as natural numbers (the old balance itself when
\* sender and recipient are the same)
C7_Debited(before, after, t) ==
    ~IsReward(t) =>
        /\ t.Value <= Get(before, t.From)
        /\ Get(after, t.From) =
               IF t.From = t.To THEN Get(before, t.From)
               ELSE Get(before, t.From) - t.Value

\* C7: a transfer is applied, by Add or by the startup replay, only when its
\* value is at most the sender's balance, and the sender's balance after it
\* is the old one minus the value as natural numbers: no balance goes below
\* zero, the debit never wraps.
C7_DebitNeverWraps ==
    [][ /\ (last'.op = "Add" /\ last'.err = "") =>
               C7_Debited(Balances, Balances', last'.tx)
        /\ (last'.op = "NewStateFromDisk" /\ last'.err = "" /\ Len(replayed') = 1) =>
               C7_Debited(genesis, Balances', replayed'[1]) ]_vars

\* an accepted transfer between two accounts took the whole balance of the
\* sender
C7_Witness ==
    /\ last.op = "Add" /\ last.err = ""
    /\ ~IsReward(last.tx)
    /\ last.tx.From # last.tx.To
    /\ last.tx.Value = MaxUint
    /\ Get(Balances, last.tx.From) = 0

----------------------------------------------------------------------------
(* C8 *)

\* C8: an accepted transaction leaves the recipient's balance equal to the
\* mathematical sum of the balance it was credited on and the value, never
\* a wrapped one.
C8_CreditNeverWraps ==
    [][ (last'.op = "Add" /\ last'.err = "") =>
            LET t == last'.tx
                old == IF ~IsReward(t) /\ t.From = t.To
                       THEN Get(Balances, t.To) - t.Value
                       ELSE Get(Balances, t.To)
            IN  Get(Balances', t.To) = old + t.Value ]_vars

----------------------------------------------------------------------------
(* C10 *)

\* C10: NewStateFromDisk returns a State only when every line of the log
\* was read, decoded and applied.
C10_NoPartialReplay ==
    pc = "live" =>
        /\ unread = <<>>
        /\ Len(replayed) = NumLines(bootFile)

----------------------------------------------------------------------------
(* C11 *)

\* C11: the engine becomes Live only from startup, only when the replay
\* returned no error and consumed the entire log; a startup that fails
\* leaves no State to Add to or Persist; once Live it stays Live.
C11_LiveOnlyAfterWholeLog ==
    [][ /\ (pc # "live" /\ pc' = "live") =>
              /\ pc = "start"
              /\ last'.err = ""
              /\ unread' = <<>>
              /\ Len(replayed') = NumLines(bootFile')
        /\ (pc = "live" => pc' = "live")
        /\ (pc = "failed" => pc' = "failed") ]_vars

----------------------------------------------------------------------------
(* C12 *)

\* C12: a Persist whose write fails after k successful writes leaves the
\* log with the k whole frames and nothing of the failed one: the log
\* content is as it was before the failed write.
C12_AppendAllOrNothing ==
    [][ (last'.op = "Persist" /\ last'.err # "") =>
            dbFile' = dbFile \o Frames(SubSeq(TxMempool, 1, last'.k)) ]_vars

----------------------------------------------------------------------------
(* C17 *)

\* C17: a startup that finds no log file fails, returns no State, and the
\* file still does not exist; it never goes on with an empty log.
C17_OpenNeverCreates ==
    [][ (pc = "start" /\ genesisOk /\ ~dbExists) =>
            /\ pc' = "failed"
            /\ last'.err = "open"
            /\ ~dbExists'
            /\ Balances' = EmptyMap ]_vars

C17_Witness ==
    /\ pc = "failed"
    /\ last.op = "NewStateFromDisk"
    /\ last.err = "open"
    /\ genesisOk
    /\ ~dbExists

----------------------------------------------------------------------------
(* C19 *)

\* C19: the loaded genesis balances stay what the genesis file holds, and
\* the genesis file stays what it was, through every replay, Add and
\* Persist; Balances is another map.
C19_GenesisNeverMutated ==
    /\ [][ genesis' = genesis /\ genesisOk' = genesisOk ]_vars
    /\ [](pc = "live" => gen = genesis)

C19_Witness ==
    /\ pc = "live"
    /\ replayed # <<>>
    /\ accepted # <<>>
    /\ written # <<>>
    /\ Balances # genesis
    /\ gen = genesis

----------------------------------------------------------------------------
(* C13 *)

\* C13: the startup that follows a crash succeeds, and its Balances are
\* the balances the crashed process started with, with a prefix of the
\* transactions it accepted applied in acceptance order.
C13_CrashConsistentRecovery ==
    [][ (pc = "start" /\ crashes > 0 /\ pc' # "start") =>
            /\ pc' = "live"
            /\ \E j \in 0..Len(accepted) :
                   Balances' =
                       ApplyAll(CopyMap(genesis),
                                replayed \o SubSeq(accepted, 1, j)).bal ]_vars

----------------------------------------------------------------------------
(* C14 *)

\* C14: when Persist returns success after writing records, every byte of
\* the log is on the disk.
C14_DurableBeforeReturn ==
    [][ (last'.op = "Persist" /\ last'.err = "" /\ written' # written) =>
            durable' = Len(dbFile') ]_vars

----------------------------------------------------------------------------
(* C18 *)

\* C18: right after a successful startup the Mempool is empty; a Persist
\* that follows the startup directly appends nothing and succeeds; and the
\* startup after a process that accepted nothing and ended with the machine
\* still up finds the log that process found and computes the Balances it
\* computed.
C18_StartupMempoolEmpty ==
    /\ []((pc = "live" /\ last.op = "NewStateFromDisk") => TxMempool = <<>>)
    /\ [][ (pc = "live" /\ last.op = "NewStateFromDisk"
                        /\ last'.op = "Persist") =>
              /\ dbFile' = dbFile
              /\ written' = <<>>
              /\ last'.err = "" ]_vars
    /\ [][ (pc = "start" /\ crashes > 0 /\ accepted = <<>>
                         /\ last.op = "Crash" /\ last.err = ""
                         /\ pc' # "start") =>
              /\ pc' = "live"
              /\ dbFile' = bootFile
              /\ bootFile' = bootFile
              /\ Balances' = ApplyAll(CopyMap(genesis), replayed).bal ]_vars

C18_Witness ==
    /\ crashes > 0
    /\ pc = "live"
    /\ last.op = "Persist"
    /\ last.err = ""
    /\ replayed # <<>>
    /\ accepted = <<>>
    /\ TxMempool = <<>>
    /\ dbFile = bootFile

----------------------------------------------------------------------------
(* C15 *)

\* C15: whenever no caller is inside Add or Persist, the transactions whose
\* Add returned success are, in order and once each, the ones written to the
\* log followed by the Mempool, and Balances is what applying exactly them
\* to the startup balances gives.
C15_CallsSerialized ==
    (pc = "live" /\ \A g \in Goroutines : gor[g].pc = "idle") =>
        LET start == ApplyAll(CopyMap(genesis), replayed).bal
            r == ApplyAll(start, accepted)
        IN  /\ accepted = written \o TxMempool
            /\ r.err = ""
            /\ Balances = r.bal

----------------------------------------------------------------------------
(* C16 *)

\* C16: when a Persist returns success and no other Persist has written
\* since it took its copy, it has written the entries of the copy and no
\* other, and the transactions accepted after the copy are the last entries
\* of the Mempool, in acceptance order.
C16_StableSnapshot ==
    [][ \A g \in Goroutines :
            (/\ gor[g].pc = "write"
             /\ gor'[g].pc = "idle"
             /\ last'.op = "Persist"
             /\ last'.err = ""
             /\ written = SubSeq(written, 1, gor[g].mark.written)
                              \o gor[g].mempool) =>
                EndsWith(TxMempool',
                         SubSeq(accepted, gor[g].mark.accepted + 1,
                                Len(accepted))) ]_vars

----------------------------------------------------------------------------
(* C20 *)

\* C20: with one caller, every change of the Mempool is either an Add
\* appending one entry, or Persist removing the front entry, and then that
\* entry is the entry of the copy Persist is at, it is the last one written
\* and its frame is at the end of the log.
C20_FrontRemovedAfterWrite ==
    [][ \/ TxMempool' = TxMempool
        \/ /\ \E g \in Goroutines : gor[g].pc = "store" /\ gor'[g].pc = "idle"
           /\ Len(TxMempool') = Len(TxMempool) + 1
           /\ SubSeq(TxMempool', 1, Len(TxMempool)) = TxMempool
        \/ /\ TxMempool # <<>>
           /\ TxMempool' = Tail(TxMempool)
           /\ \E g \in Goroutines :
                  /\ gor[g].pc = "rstore"
                  /\ gor[g].i <= Len(gor[g].mempool)
                  /\ gor[g].mempool[gor[g].i] = Head(TxMempool)
           /\ written # <<>>
           /\ written[Len(written)] = Head(TxMempool)
           /\ EndsWith(dbFile, Frame(Head(TxMempool))) ]_vars

C20_Witness ==
    /\ pc = "live"
    /\ gor[1].pc = "write"
    /\ gor[1].i = 2
    /\ Len(gor[1].mempool) = 2
    /\ TxMempool = Tail(gor[1].mempool)
    /\ written # <<>>

----------------------------------------------------------------------------
(* C21 *)

\* C21: an Add of a transfer fails exactly when its value exceeds the
\* sender's balance (an absent sender has balance zero) and then changes no
\* balance; otherwise the state it returns in has the sender's balance down
\* by the value and the recipient's up by the value, as numbers, and every
\* other entry as it was.
C21_TransferExact ==
    [][ (last'.op = "Add" /\ ~IsReward(last'.tx)) =>
            LET t == last'.tx
            IN  /\ last'.err # "" <=> t.Value > Get(Balances, t.From)
                /\ last'.err # "" => Balances' = Balances
                /\ last'.err = "" =>
                      /\ \A a \in Accounts \ {t.From, t.To} :
                             SameEntry(Balances', Balances, a)
                      /\ IF t.From = t.To
                         THEN Get(Balances', t.From) = Get(Balances, t.From)
                         ELSE /\ Get(Balances', t.From) =
                                     Get(Balances, t.From) - t.Value
                              /\ Get(Balances', t.To) =
                                     Get(Balances, t.To) + t.Value ]_vars

----------------------------------------------------------------------------
(* C22 *)

\* C22: a Persist that returns success after an earlier Persist has failed
\* made at most as many writes as its copy has entries, leaves the Mempool
\* empty, and the log then holds, after what it held at startup, the frame
\* of every accepted transaction once, in acceptance order.
C22_RetryCompletesLog ==
    [][ (last'.op = "Persist" /\ last'.err = "" /\ nfail > 0) =>
            /\ last'.k <= Len(TxMempool)
            /\ TxMempool' = <<>>
            /\ dbFile' = bootFile \o Frames(accepted) ]_vars

----------------------------------------------------------------------------
(* C23 *)

\* C23: makeTransaction returns an error and changes no balance when the
\* sender is absent or holds less than the amount; otherwise the sender's
\* balance is down by the amount and the recipient's up by it, as numbers
\* (both as they were when sender and recipient are the same), the other
\* balances are as they were, and no balance is negative.
C23_OnlyValidTransfers ==
    [][ last'.op = "makeTransaction" =>
            LET t == last'.tx
                short == t.From \notin DOMAIN Balances
                             \/ Balances[t.From] < t.Value
            IN  /\ short => (last'.err # "" /\ Balances' = Balances)
                /\ ~short =>
                      /\ last'.err = ""
                      /\ \A a \in Accounts \ {t.From, t.To} :
                             SameEntry(Balances', Balances, a)
                      /\ IF t.From = t.To
                         THEN Get(Balances', t.From) = Get(Balances, t.From)
                         ELSE /\ Get(Balances', t.From) =
                                     Get(Balances, t.From) - t.Value
                              /\ Get(Balances', t.To) =
                                     Get(Balances, t.To) + t.Value
                      /\ \A a \in DOMAIN Balances' : Balances'[a] >= 0 ]_vars

----------------------------------------------------------------------------
(* C24 *)

\* C24: whether a transaction has been replayed, accepted or queued before
\* plays no part in Add: it fails exactly when the transaction is a transfer
\* of more than the sender's balance, and otherwise debits the sender,
\* credits the recipient and appends one more entry to the Mempool.
C24_NoReplayProtection ==
    [][ last'.op = "Add" =>
            LET t == last'.tx
                covered == IsReward(t) \/ t.Value <= Get(Balances, t.From)
            IN  /\ last'.err = "" <=> covered
                /\ ~covered => (Balances' = Balances /\ TxMempool' = TxMempool)
                /\ covered =>
                      /\ TxMempool' = Append(TxMempool, t)
                      /\ (~IsReward(t) /\ t.From # t.To) =>
                             Get(Balances', t.From) =
                                 Get(Balances, t.From) - t.Value
                      /\ (IsReward(t) \/ t.From # t.To) =>
                             Get(Balances', t.To) =
                                 UAdd(Get(Balances, t.To), t.Value) ]_vars

\* the same transfer has been accepted twice and is queued twice
C24_Witness ==
    /\ pc = "live"
    /\ last.op = "Add" /\ last.err = ""
    /\ ~IsReward(last.tx)
    /\ Len(TxMempool) = 2
    /\ TxMempool[1] = last.tx
    /\ TxMempool[2] = last.tx
    /\ Get(Balances, last.tx.To) = Get(genesis, last.tx.To) + 2 * last.tx.Value

----------------------------------------------------------------------------
(* C25 *)

\* C25: in every state after startup, replaying the log from the genesis
\* balances and then applying the Mempool entries in order succeeds and
\* yields exactly Balances.
C25_AheadOfLogByMempool ==
    pc = "live" =>
        LET r == Replay(genesis, dbFile)
            m == ApplyAll(r.bal, TxMempool)
        IN  /\ r.err = ""
            /\ m.err = ""
            /\ m.bal = Balances

----------------------------------------------------------------------------
(* C26 *)

\* C26: an accepted transfer leaves the sum of all balances as it was, and
\* an accepted reward raises it by exactly its value.
C26_SupplyConserved ==
    [][ (last'.op = "Add" /\ last'.err = "") =>
            Total(Balances') =
                Total(Balances)
                    + (IF IsReward(last'.tx) THEN last'.tx.Value ELSE 0) ]_vars

----------------------------------------------------------------------------
(* C27 *)

\* C27: an Add, accepted or rejected, leaves the log as it was; a Persist,
\* successful or failed, leaves Balances as they were; and every step
\* leaves the log it found as the beginning of the log it leaves.
C27_FrameConditions ==
    [][ /\ last'.op = "Add" => dbFile' = dbFile
        /\ last'.op = "Persist" => Balances' = Balances
        /\ IsPrefix(dbFile, dbFile') ]_vars

\* a Persist has appended to a log that held a record at startup, after an
\* Add that changed the balances
C27_Witness ==
    /\ pc = "live"
    /\ last.op = "Persist"
    /\ bootFile # <<>>
    /\ written # <<>>
    /\ Len(dbFile) > Len(bootFile)
    /\ IsPrefix(bootFile, dbFile)
    /\ Balances # ApplyAll(CopyMap(genesis), replayed).bal

----------------------------------------------------------------------------
(* C28 *)

\* C28: a Persist on an empty Mempool makes no write, returns success and
\* leaves the log, the Mempool and Balances as they were.
C28_PersistIdempotent ==
    [][ (last'.op = "Persist" /\ TxMempool = <<>>) =>
            /\ last'.err = ""
            /\ last'.k = 0
            /\ dbFile' = dbFile
            /\ TxMempool' = <<>>
            /\ Balances' = Balances ]_vars

\* a Persist on the Mempool a successful Persist has emptied
C28_Witness ==
    /\ pc = "live"
    /\ last.op = "Persist" /\ last.err = "" /\ last.k = 0
    /\ nfail = 0
    /\ written # <<>>
    /\ written = accepted
    /\ TxMempool = <<>>
    /\ dbFile = bootFile \o Frames(written)

----------------------------------------------------------------------------
(* C29 *)

\* C29: an Add of a transfer to the sender itself of at most its balance,
\* or of a transfer of value zero from any sender, absent ones included,
\* succeeds, leaves the balance of every account as it was (an absent
\* account reads as zero) and appends the transaction to the Mempool; a
\* Persist that succeeds then appends the frames of the Mempool entries to
\* the log.
C29_DegenerateTransfers ==
    [][ /\ (/\ last'.op = "Add"
            /\ ~IsReward(last'.tx)
            /\ \/ last'.tx.Value = 0
               \/ /\ last'.tx.From = last'.tx.To
                  /\ last'.tx.Value <= Get(Balances, last'.tx.From)) =>
               /\ last'.err = ""
               /\ \A a \in Accounts : Get(Balances', a) = Get(Balances, a)
               /\ TxMempool' = Append(TxMempool, last'.tx)
        /\ (last'.op = "Persist" /\ last'.err = "") =>
               /\ dbFile' = dbFile \o Frames(TxMempool)
               /\ written' = written \o TxMempool
               /\ TxMempool' = <<>> ]_vars

\* a transfer of a positive value to the sender itself has been accepted
\* and persisted
C29_Witness ==
    /\ pc = "live"
    /\ last.op = "Persist" /\ last.err = ""
    /\ Len(written) = 1
    /\ ~IsReward(written[1])
    /\ written[1].From = written[1].To
    /\ written[1].Value > 0
    /\ dbFile = Frame(written[1])
    /\ \A a \in Accounts : Get(Balances, a) = Get(genesis, a)

----------------------------------------------------------------------------
(* C30 *)

====
